---- MODULE Spec2Model ----
(***************************************************************************)
(* Security-group drift detector (src/lambda/drift_detector.py).           *)
(*                                                                         *)
(* One invocation of lambda_handler is a sequence of steps, one per        *)
(* external call (S3 read, EC2 describe, EC2 revoke, SNS publish, SSM      *)
(* read, webhook POST); the pure code between two calls belongs to the     *)
(* step of the call that precedes it.  The security group, the baseline    *)
(* document and the webhook parameter are the external state.              *)
(*                                                                         *)
(* A Python dict is a record whose DOMAIN holds exactly the keys present;  *)
(* dict.get(k) of an absent key is PyNone inside lists and "key absent"    *)
(* for scalars.  A Python exception is the name of its class.              *)
(***************************************************************************)
EXTENDS Integers, Sequences, FiniteSets, TLC

(***************************************************************************)
(* Bounds                                                                  *)
(***************************************************************************)
MaxLive == 2
MaxBaseline == 1
MaxLiveConc == 1
MaxEntries == 2

(***************************************************************************)
(* Configuration (module-level environment variables)                      *)
(***************************************************************************)
SECURITY_GROUP_ID == "sg-monitored"
PLACEHOLDER == "REPLACE_WITH_YOUR_WEBHOOK_URL"

Procs == {1, 2}
PyNone == "<None>"

(***************************************************************************)
(* Rules, in the shape EC2 describe_security_groups returns them.          *)
(***************************************************************************)
RuleSsh ==
    [IpProtocol |-> "tcp", FromPort |-> 22, ToPort |-> 22,
     IpRanges |-> <<[CidrIp |-> "10.0.0.0/8"]>>,
     Ipv6Ranges |-> <<>>, PrefixListIds |-> <<>>, UserIdGroupPairs |-> <<>>]

RuleSshLive ==
    [IpProtocol |-> "tcp", FromPort |-> 22, ToPort |-> 22,
     IpRanges |-> <<[CidrIp |-> "10.0.0.0/8", Description |-> "office"]>>,
     Ipv6Ranges |-> <<>>, PrefixListIds |-> <<>>, UserIdGroupPairs |-> <<>>]

RuleOpen ==
    [IpProtocol |-> "tcp", FromPort |-> 22, ToPort |-> 22,
     IpRanges |-> <<[CidrIp |-> "0.0.0.0/0"]>>,
     Ipv6Ranges |-> <<[CidrIpv6 |-> "::/0"]>>,
     PrefixListIds |-> <<>>, UserIdGroupPairs |-> <<>>]

RuleAll ==
    [IpProtocol |-> "-1",
     IpRanges |-> <<>>, Ipv6Ranges |-> <<>>, PrefixListIds |-> <<>>,
     UserIdGroupPairs |-> <<[GroupId |-> "sg-peer", UserId |-> "111122223333"]>>]

BaselineRules == {RuleSsh, RuleAll}
LiveRules == {RuleSshLive, RuleOpen, RuleAll}

(* The identifier strings of the model in Python's str order (code points). *)
StrOrder == <<"", "0.0.0.0/0", "10.0.0.0/8", "::/0", "pl-1", "sg-peer">>

StrRank(s) == CHOOSE i \in 1..Len(StrOrder) : StrOrder[i] = s

(***************************************************************************)
(* Sequences                                                               *)
(***************************************************************************)
SeqsUpTo(S, n) == UNION {[1..k -> S] : k \in 0..n}

DistinctSeqsUpTo(S, n) ==
    {s \in SeqsUpTo(S, n) : \A i, j \in 1..Len(s) : i # j => s[i] # s[j]}

RECURSIVE Insert(_, _)
Insert(x, s) ==
    IF s = <<>> THEN <<x>>
    ELSE IF StrRank(x) <= StrRank(Head(s)) THEN <<x>> \o s
    ELSE <<Head(s)>> \o Insert(x, Tail(s))

(* sorted(list of str) *)
RECURSIVE sorted(_)
sorted(s) == IF s = <<>> THEN <<>> ELSE Insert(Head(s), sorted(Tail(s)))

(* sorted() compares its elements with <, which None does not support. *)
SortedRaises(s) == Len(s) >= 2 /\ \E i \in 1..Len(s) : s[i] = PyNone

(***************************************************************************)
(* normalize_rule, rules_match, is_rule_in_baseline, compare_rules         *)
(***************************************************************************)
ListKeys == {"IpRanges", "Ipv6Ranges", "PrefixListIds", "UserIdGroupPairs"}

IdKey(k) ==
    CASE k = "IpRanges" -> "CidrIp"
      [] k = "Ipv6Ranges" -> "CidrIpv6"
      [] k = "PrefixListIds" -> "PrefixListId"
      [] k = "UserIdGroupPairs" -> "GroupId"

(* [r.get(id) for r in rule.get(k, [])] *)
Project(rule, k) ==
    LET L == IF k \in DOMAIN rule THEN rule[k] ELSE <<>>
    IN  [i \in 1..Len(L) |->
            IF IdKey(k) \in DOMAIN L[i] THEN L[i][IdKey(k)] ELSE PyNone]

NormalizeRaises(rule) ==
    \E k \in ListKeys \cap DOMAIN rule : SortedRaises(Project(rule, k))

(* Every truthy key of the rule is kept, not only the seven of the dict   *)
(* literal.                                                                *)
TruthyKeys_of_rule(rule) ==
    {k \in DOMAIN rule :
        \/ k = "IpProtocol" /\ rule[k] # ""
        \/ k \in {"FromPort", "ToPort"} /\ rule[k] # 0
        \/ k \in ListKeys /\ Len(rule[k]) > 0
        \/ k \notin {"IpProtocol", "FromPort", "ToPort"} \cup ListKeys}

(* The keys whose value is truthy survive the final dict comprehension. *)
TruthyKeys(rule) ==
    {k \in DOMAIN rule :
        \/ k = "IpProtocol" /\ rule[k] # ""
        \/ k \in {"FromPort", "ToPort"} /\ rule[k] # 0
        \/ k \in ListKeys /\ Len(rule[k]) > 0}

(* The projected identifiers are kept in the order of the entries. *)
normalize_rule_unsorted(rule) ==
    IF NormalizeRaises(rule) THEN [error |-> "TypeError"]
    ELSE [k \in TruthyKeys(rule) |->
            IF k \in ListKeys THEN Project(rule, k) ELSE rule[k]]

normalize_rule(rule) ==
    IF NormalizeRaises(rule) THEN [error |-> "TypeError"]
    ELSE [k \in TruthyKeys(rule) |->
            IF k \in ListKeys THEN sorted(Project(rule, k)) ELSE rule[k]]

rules_match(rule1, rule2) == rule1 = rule2

(* "True", "False", or the exception a normalize_rule call raised. *)
RECURSIVE ScanBaseline(_, _, _)
ScanBaseline(normalized_rule, baseline_rules, j) ==
    IF j > Len(baseline_rules) THEN "False"
    ELSE IF NormalizeRaises(baseline_rules[j]) THEN "TypeError"
    ELSE IF rules_match(normalized_rule, normalize_rule(baseline_rules[j]))
         THEN "True"
    ELSE ScanBaseline(normalized_rule, baseline_rules, j + 1)

(* The live rule is compared as read, without normalizing it. *)
is_rule_in_baseline_raw(rule, baseline_rules) ==
    ScanBaseline(rule, baseline_rules, 1)

is_rule_in_baseline(rule, baseline_rules) ==
    IF NormalizeRaises(rule) THEN "TypeError"
    ELSE ScanBaseline(normalize_rule(rule), baseline_rules, 1)

(* The rule is put in front of the list. *)
append_first(unauthorized, rule) == <<rule>> \o unauthorized

(* unauthorized[direction].append(rule) *)
append(unauthorized, rule) == Append(unauthorized, rule)

(* One "for rule in current[direction]" loop of compare_rules: the list   *)
(* of unauthorized rules, and the exception a comparison raised, if any.   *)
RECURSIVE FindUnauthorized(_, _, _, _)
FindUnauthorized(baseline_rules, live, i, acc) ==
    IF i > Len(live) THEN [error |-> "", rules |-> acc]
    ELSE LET inb == is_rule_in_baseline(live[i], baseline_rules)
         IN  IF inb = "TypeError" THEN [error |-> "TypeError", rules |-> acc]
             ELSE FindUnauthorized(baseline_rules, live, i + 1,
                     IF inb = "False" THEN append(acc, live[i]) ELSE acc)

(* The baseline rules of both directions authorize either direction. *)
BaselineOf_both(baseline, direction) ==
    (IF "ingress" \in DOMAIN baseline THEN baseline.ingress ELSE <<>>)
    \o (IF "egress" \in DOMAIN baseline THEN baseline.egress ELSE <<>>)

(* baseline.get(direction, []) *)
BaselineOf(baseline, direction) ==
    IF direction \in DOMAIN baseline THEN baseline[direction] ELSE <<>>

(* The drift flag and the total look at the ingress list only. *)
compare_rules_ingress_only(baseline, current) ==
    LET ing == FindUnauthorized(BaselineOf(baseline, "ingress"),
                                current.ingress, 1, <<>>)
        egr == FindUnauthorized(BaselineOf(baseline, "egress"),
                                current.egress, 1, <<>>)
    IN  IF ing.error # "" THEN [error |-> ing.error]
        ELSE IF egr.error # "" THEN [error |-> egr.error]
        ELSE [has_drift |-> Len(ing.rules) > 0 \/ Len(egr.rules) > 0,
              unauthorized_rules |-> [ingress |-> ing.rules, egress |-> egr.rules],
              total_unauthorized |-> Len(ing.rules)]

compare_rules(baseline, current) ==
    LET ing == FindUnauthorized(BaselineOf(baseline, "ingress"),
                                current.ingress, 1, <<>>)
        egr == FindUnauthorized(BaselineOf(baseline, "egress"),
                                current.egress, 1, <<>>)
    IN  IF ing.error # "" THEN [error |-> ing.error]
        ELSE IF egr.error # "" THEN [error |-> egr.error]
        ELSE [has_drift |-> Len(ing.rules) > 0 \/ Len(egr.rules) > 0,
              unauthorized_rules |-> [ingress |-> ing.rules, egress |-> egr.rules],
              total_unauthorized |-> Len(ing.rules) + Len(egr.rules)]

(***************************************************************************)
(* format_rule_summary                                                     *)
(***************************************************************************)
(* [r.get(id, '') for r in rule.get(k, [])] *)
ProjectOrEmpty(rule, k) ==
    LET L == IF k \in DOMAIN rule THEN rule[k] ELSE <<>>
    IN  [i \in 1..Len(L) |->
            IF IdKey(k) \in DOMAIN L[i] THEN L[i][IdKey(k)] ELSE ""]

(* ', '.join(s) *)
RECURSIVE Join(_)
Join(s) ==
    IF s = <<>> THEN ""
    ELSE IF Len(s) = 1 THEN s[1]
    ELSE s[1] \o ", " \o Join(Tail(s))

PortText(rule, k) == IF k \in DOMAIN rule THEN ToString(rule[k]) ELSE "all"

(* A missing port compares unequal to everything. *)
PortsEqual_both_present(rule) ==
    /\ "FromPort" \in DOMAIN rule
    /\ "ToPort" \in DOMAIN rule
    /\ rule.FromPort = rule.ToPort

(* from_port == to_port, each 'all' when the key is missing *)
PortsEqual(rule) ==
    IF "FromPort" \in DOMAIN rule /\ "ToPort" \in DOMAIN rule
    THEN rule.FromPort = rule.ToPort
    ELSE "FromPort" \notin DOMAIN rule /\ "ToPort" \notin DOMAIN rule

format_rule_summary(rule) ==
    LET protocol == IF "IpProtocol" \in DOMAIN rule THEN rule.IpProtocol ELSE "all"
        sources == ProjectOrEmpty(rule, "IpRanges")
                   \o ProjectOrEmpty(rule, "Ipv6Ranges")
                   \o ProjectOrEmpty(rule, "UserIdGroupPairs")
        kept == SelectSeq(sources, LAMBDA s : s # "")
        sources_str == IF Join(kept) = "" THEN "unknown" ELSE Join(kept)
    IN  IF protocol = "-1" THEN "All traffic from " \o sources_str
        ELSE IF PortsEqual(rule)
             THEN "Protocol " \o protocol \o ", Port " \o PortText(rule, "FromPort")
                  \o " from " \o sources_str
        ELSE "Protocol " \o protocol \o ", Ports " \o PortText(rule, "FromPort")
             \o "-" \o PortText(rule, "ToPort") \o " from " \o sources_str

(***************************************************************************)
(* State                                                                   *)
(***************************************************************************)
VARIABLES
    input,            \* the arguments of a direct call of a comparison function
    output,           \* what the direct call returned or raised
    s3doc,            \* the baseline document stored in S3
    sg,               \* the security group's rules in EC2, per direction
    pc,               \* where each invocation of lambda_handler stands
    baseline_rules,   \* lambda_handler's local, per invocation
    current_rules,    \* lambda_handler's local, per invocation
    drift_detected,   \* lambda_handler's local, per invocation
    i,                \* position of the running revoke loop
    results,          \* revoke_unauthorized_rules' results
    webhook_url,      \* send_slack_notification's local
    error,            \* the exception lambda_handler caught
    response,         \* what the invocation returned or raised
    calls             \* the external calls each invocation has made

vars == <<input, output, s3doc, sg, pc, baseline_rules, current_rules, drift_detected, i,
          results, webhook_url, error, response, calls>>

locals == <<baseline_rules, current_rules, drift_detected, i, results,
            webhook_url>>

JsonString(s) == [string |-> s]
JsonObject(o) == [object |-> o]

NoRules == [ingress |-> <<>>, egress |-> <<>>]
NoDrift == [has_drift |-> FALSE, unauthorized_rules |-> NoRules,
            total_unauthorized |-> 0]
NoResults == [revoked |-> <<>>, failed |-> <<>>]

(* What the external services may answer. *)
S3Errors == {"ClientError", "EndpointConnectionError"}
DescribeErrors == {"ClientError", "ValueError", "EndpointConnectionError"}
RevokeErrors == {"ClientError", "EndpointConnectionError"}
PublishErrors == {"ClientError", "EndpointConnectionError"}
ParameterErrors == {"ClientError", "EndpointConnectionError"}
PostOutcomes == {"200", "500", "MaxRetryError"}
Urls == {<<"https://hooks.slack.com/services/T0/B0/x">>,
         <<PLACEHOLDER>>,
         <<"https://hooks.slack.com/", PLACEHOLDER>>}

(* The value is compared with the marker instead of searched for it. *)
IsPlaceholder_equal(url) == url = <<PLACEHOLDER>>

(* 'REPLACE_WITH_YOUR_WEBHOOK_URL' in webhook_url; a string is the         *)
(* sequence of its pieces.                                                 *)
IsPlaceholder(url) == \E k \in 1..Len(url) : url[k] = PLACEHOLDER

(* The export of a group lists each of its rules once. *)
BaselineLists == DistinctSeqsUpTo(BaselineRules, MaxBaseline)

Docs ==
    {[baseline_rules |-> [ingress |-> a, egress |-> b]] :
        a \in BaselineLists, b \in BaselineLists}
    \cup {[baseline_rules |-> [ingress |-> a]] : a \in BaselineLists}
    \cup {[baseline_rules |-> [egress |-> b]] : b \in BaselineLists}

(* A security group holds a rule at most once per direction. *)
Groups(n) ==
    {g \in [ingress : DistinctSeqsUpTo(LiveRules, n),
            egress : DistinctSeqsUpTo(LiveRules, n)] :
        Len(g.ingress) + Len(g.egress) <= n}

(* No function is called directly while lambda_handler runs. *)
NoInput == [event |-> "scheduled"]
NoOutput == [fn |-> "none"]

InitWith(started, docs, groups, inputs) ==
    /\ input \in inputs
    /\ output = NoOutput
    /\ s3doc \in docs
    /\ sg \in groups
    /\ pc = [p \in Procs |-> IF p \in started THEN "load_baseline" ELSE "off"]
    /\ baseline_rules = [p \in Procs |-> NoRules]
    /\ current_rules = [p \in Procs |-> NoRules]
    /\ drift_detected = [p \in Procs |-> NoDrift]
    /\ i = [p \in Procs |-> 1]
    /\ results = [p \in Procs |-> NoResults]
    /\ webhook_url = [p \in Procs |-> <<>>]
    /\ error = [p \in Procs |-> ""]
    /\ response = [p \in Procs |-> [kind |-> "pending"]]
    /\ calls = [p \in Procs |-> <<>>]

Init == InitWith({1}, Docs, Groups(MaxLive), {NoInput})

(* The call is appended to the invocation's trace. *)
Called(p, call) == calls' = [calls EXCEPT ![p] = Append(@, call)]

(* An exception reaches lambda_handler's "except Exception". *)
Caught(p, e) ==
    /\ pc' = [pc EXCEPT ![p] = "error_notification"]
    /\ error' = [error EXCEPT ![p] = e]
    /\ UNCHANGED response

Returned(p, body) ==
    /\ pc' = [pc EXCEPT ![p] = "done"]
    /\ response' = [response EXCEPT ![p] =
                        [kind |-> "return", statusCode |-> 200, body |-> body]]
    /\ UNCHANGED error

Continue(p, label) ==
    /\ pc' = [pc EXCEPT ![p] = label]
    /\ UNCHANGED <<error, response>>

RemediatedBody(res) ==
    JsonObject([message |-> "Drift detected and remediated",
                unauthorized_rules_removed |-> Len(res.revoked),
                details |-> res])

(***************************************************************************)
(* lambda_handler, step by step                                            *)
(***************************************************************************)
(* baseline_rules = load_baseline_from_s3() *)
LoadBaseline(p) ==
    /\ pc[p] = "load_baseline"
    /\ \E o \in {"ok"} \cup S3Errors :
        /\ Called(p, [api |-> "s3.get_object", outcome |-> o])
        /\ IF o = "ok"
           THEN /\ baseline_rules' =
                       [baseline_rules EXCEPT ![p] = s3doc.baseline_rules]
                /\ Continue(p, "get_rules")
           ELSE /\ Caught(p, o)
                /\ UNCHANGED baseline_rules
    /\ UNCHANGED <<input, output, s3doc, sg, current_rules, drift_detected, i, results,
                   webhook_url>>

(* The Slack path runs before the topic publish. *)
Channels_slack_first == <<"get_parameter", "publish">>

(* send_notifications: the topic publish, then send_slack_notification. *)
Channels == <<"publish", "get_parameter">>

(* A channel is done with: the next one starts, and after the last one     *)
(* lambda_handler returns its result.                                      *)
AfterChannel(p, label) ==
    LET k == CHOOSE k \in 1..Len(Channels) : Channels[k] = label
    IN  IF k < Len(Channels) THEN Continue(p, Channels[k + 1])
        ELSE Returned(p, RemediatedBody(results[p]))

(* The egress loop runs first and the ingress loop only without it. *)
FirstLoop_egress_first(drift) ==
    IF Len(drift.unauthorized_rules.egress) > 0 THEN "revoke_egress"
    ELSE IF Len(drift.unauthorized_rules.ingress) > 0 THEN "revoke_ingress"
    ELSE Channels[1]

(* Where the revoke loops start for a drift report. *)
FirstLoop(drift) ==
    IF Len(drift.unauthorized_rules.ingress) > 0 THEN "revoke_ingress"
    ELSE IF Len(drift.unauthorized_rules.egress) > 0 THEN "revoke_egress"
    ELSE Channels[1]

(* The handler goes on to remediation and notification without drift. *)
AfterCompare_no_return(p, drift) == Continue(p, FirstLoop(drift))

(* if not drift_detected['has_drift']: return {'statusCode': 200, ...} *)
AfterCompare(p, drift) ==
    IF ~drift.has_drift
    THEN Returned(p, JsonString("No drift detected"))
    ELSE Continue(p, FirstLoop(drift))

(* current_rules = get_current_sg_rules();                                 *)
(* drift_detected = compare_rules(baseline_rules, current_rules)           *)
GetCurrentRules(p) ==
    /\ pc[p] = "get_rules"
    /\ \E o \in {"ok"} \cup DescribeErrors :
        /\ Called(p, [api |-> "ec2.describe_security_groups",
                      GroupIds |-> <<SECURITY_GROUP_ID>>, outcome |-> o])
        /\ IF o = "ok"
           THEN LET current == [ingress |-> sg.ingress, egress |-> sg.egress]
                    drift == compare_rules(baseline_rules[p], current)
                IN  /\ current_rules' = [current_rules EXCEPT ![p] = current]
                    /\ IF "error" \in DOMAIN drift
                       THEN /\ Caught(p, drift.error)
                            /\ UNCHANGED drift_detected
                       ELSE /\ drift_detected' =
                                   [drift_detected EXCEPT ![p] = drift]
                            /\ AfterCompare(p, drift)
           ELSE /\ Caught(p, o)
                /\ UNCHANGED <<current_rules, drift_detected>>
    /\ UNCHANGED <<input, output, s3doc, sg, baseline_rules, i, results, webhook_url>>

Present(rule, direction) ==
    \E k \in 1..Len(sg[direction]) : sg[direction][k] = rule

(* What EC2 may answer to the revoke of a rule. *)
RevokeOutcomes(rule, direction) ==
    IF Present(rule, direction) THEN {"ok"} \cup RevokeErrors ELSE RevokeErrors

RevokeApi(direction) ==
    IF direction = "ingress" THEN "ec2.revoke_security_group_ingress"
    ELSE "ec2.revoke_security_group_egress"

(* Each source entry is cut down to its identifying field. *)
Stripped(rule) ==
    [k \in DOMAIN rule |->
        IF k \in ListKeys
        THEN [n \in 1..Len(rule[k]) |->
                 [f \in DOMAIN rule[k][n] \cap {IdKey(k)} |-> rule[k][n][f]]]
        ELSE rule[k]]

IpPermissions_stripped(rule) == <<Stripped(rule)>>

(* IpPermissions=[rule] *)
IpPermissions(rule) == <<rule>>

(* The entry is tagged as in the ingress loop, whatever the loop. *)
failed_entry_ingress(direction, rule, e) ==
    [type |-> "ingress", rule |-> format_rule_summary(rule), error |-> e]

(* results['failed'].append({'type': ..., 'rule': ..., 'error': str(e)}) *)
failed_entry(direction, rule, e) ==
    [type |-> direction, rule |-> format_rule_summary(rule), error |-> e]

(* The loops run over the rules as read from the group. *)
unauthorized_rules_as_read(p) == current_rules[p]

(* revoke_unauthorized_rules(drift_detected):                              *)
(* unauthorized = drift_info['unauthorized_rules']                         *)
unauthorized_rules(p) == drift_detected[p].unauthorized_rules

(* One iteration of a "for rule in unauthorized[direction]" loop. *)
RevokeStep(p, direction) ==
    LET unauthorized == unauthorized_rules(p)
        rule == unauthorized[direction][i[p]]
        last == i[p] = Len(unauthorized[direction])
        after == IF ~last THEN pc[p]
                 ELSE IF direction = "ingress" /\ Len(unauthorized.egress) > 0
                      THEN "revoke_egress"
                 ELSE Channels[1]
        entry == [type |-> direction, rule |-> format_rule_summary(rule)]
    IN  \E o \in RevokeOutcomes(rule, direction) :
        /\ Called(p, [api |-> RevokeApi(direction),
                      GroupId |-> SECURITY_GROUP_ID,
                      IpPermissions |-> IpPermissions(rule), outcome |-> o])
        /\ IF o = "ok"
           THEN /\ sg' = [sg EXCEPT ![direction] =
                              SelectSeq(@, LAMBDA r : r # rule)]
                /\ results' = [results EXCEPT ![p].revoked = Append(@, entry)]
                /\ i' = [i EXCEPT ![p] = IF last THEN 1 ELSE @ + 1]
                /\ Continue(p, after)
           ELSE IF o = "ClientError"
           THEN /\ results' = [results EXCEPT ![p].failed = Append(@,
                       failed_entry(direction, rule,
                                    IF Present(rule, direction)
                                    THEN "UnauthorizedOperation"
                                    ELSE "InvalidPermission.NotFound"))]
                /\ i' = [i EXCEPT ![p] = IF last THEN 1 ELSE @ + 1]
                /\ Continue(p, after)
                /\ UNCHANGED sg
           ELSE /\ Caught(p, o)
                /\ UNCHANGED <<sg, results, i>>

RevokeIngress(p) ==
    /\ pc[p] = "revoke_ingress"
    /\ RevokeStep(p, "ingress")
    /\ UNCHANGED <<input, output, s3doc, baseline_rules, current_rules, drift_detected,
                   webhook_url>>

RevokeEgress(p) ==
    /\ pc[p] = "revoke_egress"
    /\ RevokeStep(p, "egress")
    /\ UNCHANGED <<input, output, s3doc, baseline_rules, current_rules, drift_detected,
                   webhook_url>>

(* The parts of format_notification_message that vary. *)
format_notification_message(drift_info, remediation_results) ==
    [total_unauthorized |-> drift_info.total_unauthorized,
     unauthorized_ingress |-> Len(drift_info.unauthorized_rules.ingress),
     unauthorized_egress |-> Len(drift_info.unauthorized_rules.egress),
     revoked |-> remediation_results.revoked,
     failed |-> remediation_results.failed]

(* send_notifications: sns_client.publish *)
PublishDrift(p) ==
    /\ pc[p] = "publish"
    /\ \E o \in {"ok"} \cup PublishErrors :
        /\ Called(p, [api |-> "sns.publish", Subject |-> "drift",
                      Message |-> format_notification_message(
                                      drift_detected[p], results[p]),
                      outcome |-> o])
        /\ IF o \in {"ok", "ClientError"}
           THEN AfterChannel(p, "publish")
           ELSE Caught(p, o)
    /\ UNCHANGED <<input, output, s3doc, sg, locals>>

(* send_slack_notification: ssm_client.get_parameter *)
GetParameter(p) ==
    /\ pc[p] = "get_parameter"
    /\ \/ \E url \in Urls :
            /\ Called(p, [api |-> "ssm.get_parameter", outcome |-> "ok"])
            /\ webhook_url' = [webhook_url EXCEPT ![p] = url]
            /\ IF IsPlaceholder(url)
               THEN AfterChannel(p, "get_parameter")
               ELSE Continue(p, "post")
       \/ \E o \in ParameterErrors :
            /\ Called(p, [api |-> "ssm.get_parameter", outcome |-> o])
            /\ AfterChannel(p, "get_parameter")
            /\ UNCHANGED webhook_url
    /\ UNCHANGED <<input, output, s3doc, sg, baseline_rules, current_rules, drift_detected,
                   i, results>>

(* send_slack_notification: http.request('POST', webhook_url, ...) *)
PostWebhook(p) ==
    /\ pc[p] = "post"
    /\ \E o \in PostOutcomes :
        /\ Called(p, [api |-> "http.request", url |-> webhook_url[p],
                      outcome |-> o])
        /\ AfterChannel(p, "get_parameter")
    /\ UNCHANGED <<input, output, s3doc, sg, locals>>

(* A failed publish of the error notification takes the error's place. *)
Reraised_publish_error(p, o) == IF o = "ok" THEN error[p] ELSE o

(* The bare "raise" after the notification attempt re-raises the caught   *)
(* exception, whatever the publish did.                                    *)
Reraised(p, o) == error[p]

(* except Exception: send_error_notification(str(e), event); raise *)
SendErrorNotification(p) ==
    /\ pc[p] = "error_notification"
    /\ \E o \in {"ok"} \cup PublishErrors :
        /\ Called(p, [api |-> "sns.publish", Subject |-> "error",
                      Message |-> error[p], outcome |-> o])
        /\ response' = [response EXCEPT ![p] =
                            [kind |-> "raise", exception |-> Reraised(p, o)]]
    /\ pc' = [pc EXCEPT ![p] = "raised"]
    /\ UNCHANGED <<input, output, s3doc, sg, locals, error>>

Next ==
    \E p \in Procs :
        \/ LoadBaseline(p)
        \/ GetCurrentRules(p)
        \/ RevokeIngress(p)
        \/ RevokeEgress(p)
        \/ PublishDrift(p)
        \/ GetParameter(p)
        \/ PostWebhook(p)
        \/ SendErrorNotification(p)

Spec == Init /\ [][Next]_vars

(* Two invocations for the same group and baseline, started together. *)
ConcDocs ==
    {[baseline_rules |-> [ingress |-> a, egress |-> a]] : a \in BaselineLists}

ConcInit == InitWith(Procs, ConcDocs, Groups(MaxLiveConc), {NoInput})

ConcSpec == ConcInit /\ [][Next]_vars

(***************************************************************************)
(* The comparison functions called directly, on rules of every shape a     *)
(* baseline document or a caller can hand them: keys may be absent, a port *)
(* may be 0, a source entry may lack its identifying field or hold ''.     *)
(***************************************************************************)
CidrEntries ==
    {[CidrIp |-> "10.0.0.0/8"],
     [CidrIp |-> "0.0.0.0/0", Description |-> "office"],
     [Description |-> "office"],
     [CidrIp |-> ""]}

GroupEntries ==
    {[GroupId |-> "sg-peer", UserId |-> "111122223333"],
     [UserId |-> "111122223333"]}

(* A dict either lacks the key or holds one of the values under it. *)
Optional(k, Vs) == {<<>>} \cup {k :> v : v \in Vs}

Rules ==
    {a @@ b @@ c @@ d @@ e @@ f @@ g :
        a \in Optional("IpProtocol", {"tcp", "-1"}),
        b \in Optional("FromPort", {0, 22}),
        c \in Optional("ToPort", {0, 22}),
        d \in Optional("IpRanges", SeqsUpTo(CidrEntries, MaxEntries)),
        e \in Optional("Ipv6Ranges", {<<[CidrIpv6 |-> "::/0"]>>}),
        f \in Optional("PrefixListIds", {<<[PrefixListId |-> "pl-1"]>>}),
        g \in Optional("UserIdGroupPairs", SeqsUpTo(GroupEntries, 1))}

(* Arguments of compare_rules; a list may hold a rule more than once. *)
Comparisons ==
    {[baseline |-> [ingress |-> b, egress |-> b], current |-> c] :
        b \in SeqsUpTo(BaselineRules, MaxBaseline),
        c \in [ingress : SeqsUpTo(LiveRules, MaxLive),
               egress : SeqsUpTo(LiveRules, MaxLive)]}

PureInit ==
    InitWith({}, {[baseline_rules |-> NoRules]}, {NoRules},
             {[rule |-> r] : r \in Rules} \cup Comparisons)

(* normalize_rule(rule) given a dict normalize_rule returned: the source   *)
(* collections hold str, and str has no attribute 'get' (lines 256-259).   *)
normalize_rule_of_normalized(rule) ==
    IF \E k \in ListKeys \cap DOMAIN rule : Len(rule[k]) > 0
    THEN [error |-> "AttributeError"]
    ELSE [k \in TruthyKeys(rule) |-> rule[k]]

Call_normalize_rule ==
    /\ "rule" \in DOMAIN input
    /\ output' = [fn |-> "normalize_rule", ret |-> normalize_rule(input.rule)]
    /\ UNCHANGED <<input, s3doc, sg, pc, locals, error, response, calls>>

(* The dict normalize_rule returned is normalized once more. *)
Call_normalize_rule_again ==
    /\ output.fn = "normalize_rule"
    /\ "error" \notin DOMAIN output.ret
    /\ output' = [fn |-> "normalize_rule(normalize_rule)",
                  arg |-> output.ret,
                  ret |-> normalize_rule_of_normalized(output.ret)]
    /\ UNCHANGED <<input, s3doc, sg, pc, locals, error, response, calls>>

Call_format_rule_summary ==
    /\ "rule" \in DOMAIN input
    /\ output' = [fn |-> "format_rule_summary",
                  ret |-> format_rule_summary(input.rule)]
    /\ UNCHANGED <<input, s3doc, sg, pc, locals, error, response, calls>>

Call_compare_rules ==
    /\ "current" \in DOMAIN input
    /\ output' = [fn |-> "compare_rules",
                  ret |-> compare_rules(input.baseline, input.current)]
    /\ UNCHANGED <<input, s3doc, sg, pc, locals, error, response, calls>>

PureNext ==
    \/ Call_normalize_rule
    \/ Call_normalize_rule_again
    \/ Call_format_rule_summary
    \/ Call_compare_rules

PureSpec == PureInit /\ [][PureNext]_vars

(***************************************************************************)
(* Vocabulary of the properties                                            *)
(***************************************************************************)
Directions == {"ingress", "egress"}
RevokeApis == {RevokeApi(d) : d \in Directions}
DirectionOf(api) == CHOOSE d \in Directions : RevokeApi(d) = api
Finished(p) == pc[p] \in {"done", "raised"}

(* The revoke calls of an invocation, in the order they were made. *)
RevokeCalls(p) == SelectSeq(calls[p], LAMBDA c : c.api \in RevokeApis)

(* The invocation has read the live rules and compared them. *)
Compared(p) ==
    \E k \in 1..Len(calls[p]) :
        /\ calls[p][k].api = "ec2.describe_security_groups"
        /\ calls[p][k].outcome = "ok"

(* The last call of the invocation so far. *)
LastCall(p) == calls[p][Len(calls[p])]

(* compare_rules has just returned: the describe call was the last call. *)
JustCompared(p) ==
    /\ Len(calls[p]) > 0
    /\ LastCall(p).api = "ec2.describe_security_groups"
    /\ LastCall(p).outcome = "ok"

(* The baseline load or the live-rule fetch of the invocation failed. *)
InputFailed(p) ==
    \E k \in 1..Len(calls[p]) :
        /\ calls[p][k].api \in {"s3.get_object", "ec2.describe_security_groups"}
        /\ calls[p][k].outcome # "ok"

InputError(p) ==
    LET k == CHOOSE k \in 1..Len(calls[p]) :
                /\ calls[p][k].api \in {"s3.get_object",
                                        "ec2.describe_security_groups"}
                /\ calls[p][k].outcome # "ok"
    IN  calls[p][k].outcome

(* Some baseline rule has the same normalized form as the rule. *)
Authorized(rule, baseline) ==
    LET normalized == normalize_rule(rule)
    IN  \E j \in 1..Len(baseline) : normalized = normalize_rule(baseline[j])

(* The live rules of a direction that no baseline rule authorizes. *)
Unauthorized(p, d) ==
    LET baseline == BaselineOf(baseline_rules[p], d)
    IN  SelectSeq(current_rules[p][d], LAMBDA r : ~Authorized(r, baseline))

IsPrefix(a, b) == Len(a) <= Len(b) /\ \A k \in 1..Len(a) : a[k] = b[k]

Count(seq, Test(_)) == Cardinality({k \in 1..Len(seq) : Test(seq[k])})

RemediatedResponse(p) ==
    [kind |-> "return", statusCode |-> 200, body |-> RemediatedBody(results[p])]

(***************************************************************************)
(* C1: when compare_rules returns, it reports, per direction, exactly the  *)
(* live rules whose normalized form equals the normalized form of no       *)
(* baseline rule, in live order: a live rule that matches a baseline rule  *)
(* is not reported, and nothing that is not a live rule is reported.       *)
(***************************************************************************)
C1_ComparatorSoundness ==
    \A p \in Procs : JustCompared(p) =>
        \A d \in Directions :
            LET reported == drift_detected[p].unauthorized_rules[d]
            IN  /\ reported = Unauthorized(p, d)
                /\ \A k \in 1..Len(reported) :
                      /\ ~Authorized(reported[k],
                                     BaselineOf(baseline_rules[p], d))
                      /\ \E n \in 1..Len(current_rules[p][d]) :
                            current_rules[p][d][n] = reported[k]

(* A comparison in which a live rule matches a baseline rule it is not     *)
(* identical to, another live rule is reported, and a baseline rule has no *)
(* live counterpart.                                                       *)
C1_Witness ==
    \E p \in Procs :
        /\ JustCompared(p)
        /\ baseline_rules[p] = [ingress |-> <<RuleSsh>>, egress |-> <<RuleAll>>]
        /\ current_rules[p] = [ingress |-> <<RuleSshLive, RuleOpen>>,
                               egress |-> <<>>]
        /\ drift_detected[p].unauthorized_rules.ingress = <<RuleOpen>>

(***************************************************************************)
(* C2: every failed revoke call, whatever the failure, is recorded in      *)
(* 'failed', and the batch goes on: an invocation that found drift ends    *)
(* with one revoke call made for every unauthorized rule.                  *)
(***************************************************************************)
C2_AnyRevokeFailureContinues ==
    \A p \in Procs :
        /\ Len(results[p].failed) =
               Count(RevokeCalls(p), LAMBDA c : c.outcome # "ok")
        /\ (Finished(p) /\ Compared(p)) =>
               Len(RevokeCalls(p)) = drift_detected[p].total_unauthorized

(***************************************************************************)
(* C3: when the comparison finds no unauthorized rule, the invocation has  *)
(* returned the "no drift" result and has made no call beyond the two      *)
(* reads: no revoke, no publish, no secret-store and no webhook call.      *)
(***************************************************************************)
C3_NoDriftNoAction ==
    \A p \in Procs :
        (Compared(p) /\ ~drift_detected[p].has_drift) =>
            /\ pc[p] = "done"
            /\ response[p] = [kind |-> "return", statusCode |-> 200,
                              body |-> JsonString("No drift detected")]
            /\ \A k \in 1..Len(calls[p]) :
                  calls[p][k].api \in {"s3.get_object",
                                       "ec2.describe_security_groups"}

(* A compliant group that does hold rules. *)
C3_Witness ==
    \E p \in Procs :
        /\ Compared(p)
        /\ ~drift_detected[p].has_drift
        /\ pc[p] = "done"
        /\ Len(current_rules[p].ingress) > 0
        /\ Len(current_rules[p].egress) > 0

(***************************************************************************)
(* C4: when the baseline load or the live-rule fetch fails, no revoke call *)
(* is made, one error notification is published, and the invocation then   *)
(* raises the error of the failed read, whether or not that publish        *)
(* succeeded.                                                              *)
(***************************************************************************)
C4_InputFailureAbortsRun ==
    \A p \in Procs : InputFailed(p) =>
        /\ Len(RevokeCalls(p)) = 0
        /\ pc[p] \in {"error_notification", "raised"}
        /\ pc[p] = "raised" =>
              /\ Count(calls[p], LAMBDA c : c.api = "sns.publish") = 1
              /\ LastCall(p).api = "sns.publish"
              /\ LastCall(p).Subject = "error"
              /\ response[p] = [kind |-> "raise", exception |-> InputError(p)]

(* The error notification itself failed, with another error than the read. *)
C4_Witness ==
    \E p \in Procs :
        /\ InputFailed(p)
        /\ pc[p] = "raised"
        /\ LastCall(p).outcome \notin {"ok", InputError(p)}

(***************************************************************************)
(* C5: a failure of the drift publish, of the secret fetch or of the       *)
(* webhook POST, of any kind, is swallowed: the invocation never takes the *)
(* error path because of it and returns the success result with the        *)
(* remediation details.                                                    *)
(***************************************************************************)
NotificationFailed(p) ==
    \E k \in 1..Len(calls[p]) :
        LET c == calls[p][k]
        IN  \/ c.api = "sns.publish" /\ c.Subject = "drift" /\ c.outcome # "ok"
            \/ c.api = "ssm.get_parameter" /\ c.outcome # "ok"
            \/ c.api = "http.request" /\ c.outcome # "200"

C5_NotificationFailureSwallowed ==
    \A p \in Procs : NotificationFailed(p) =>
        /\ pc[p] \notin {"error_notification", "raised"}
        /\ pc[p] = "done" => response[p] = RemediatedResponse(p)

(***************************************************************************)
(* C6: an invocation that found drift and saw some revoke call fail still  *)
(* ends with the success result: status 200, unauthorized_rules_removed    *)
(* the length of 'revoked', and 'failed' inside details.                   *)
(***************************************************************************)
C6_PartialRemediationIsSuccess ==
    \A p \in Procs :
        (Finished(p) /\ \E k \in 1..Len(RevokeCalls(p)) :
                            RevokeCalls(p)[k].outcome # "ok") =>
            /\ response[p].kind = "return"
            /\ response[p].statusCode = 200
            /\ response[p].body.object.unauthorized_rules_removed =
                   Len(results[p].revoked)
            /\ response[p].body.object.details = results[p]

(***************************************************************************)
(* C7: no rule is the argument of two revoke calls of an invocation, and   *)
(* an invocation ends with as many revoke calls as unauthorized rules.     *)
(***************************************************************************)
C7_ExactlyOneRevokePerRule ==
    \A p \in Procs :
        /\ \A j, k \in 1..Len(RevokeCalls(p)) :
              (j # k /\ RevokeCalls(p)[j].api = RevokeCalls(p)[k].api) =>
                  RevokeCalls(p)[j].IpPermissions # RevokeCalls(p)[k].IpPermissions
        /\ (Finished(p) /\ Compared(p)) =>
              Len(RevokeCalls(p)) = drift_detected[p].total_unauthorized

(***************************************************************************)
(* C8: at every revoke call, the revoke calls made so far are an initial   *)
(* part of: the unauthorized ingress rules in live order, then the         *)
(* unauthorized egress rules in live order, each on the API of its         *)
(* direction.                                                              *)
(***************************************************************************)
RevokePlan(p) ==
    LET ing == Unauthorized(p, "ingress")
        egr == Unauthorized(p, "egress")
    IN  [k \in 1..Len(ing) |-> [api |-> RevokeApi("ingress"), rule |-> ing[k]]]
        \o
        [k \in 1..Len(egr) |-> [api |-> RevokeApi("egress"), rule |-> egr[k]]]

RevokesMade(p) ==
    LET made == RevokeCalls(p)
    IN  [k \in 1..Len(made) |->
            [api |-> made[k].api, rule |-> made[k].IpPermissions[1]]]

C8_IngressBeforeEgressInLiveOrder ==
    \A p \in Procs :
        (Len(calls[p]) > 0 /\ LastCall(p).api \in RevokeApis) =>
            IsPrefix(RevokesMade(p), RevokePlan(p))

(* An egress revoke made after an ingress revoke that was rejected. *)
C8_Witness ==
    \E p \in Procs :
        /\ Len(RevokeCalls(p)) = 2
        /\ RevokeCalls(p)[1].api = RevokeApi("ingress")
        /\ RevokeCalls(p)[1].outcome = "ClientError"
        /\ RevokeCalls(p)[2].api = RevokeApi("egress")

(***************************************************************************)
(* C9: every revoke call names the configured group and carries one rule,  *)
(* which is a record of the live read of the call's own direction, as      *)
(* read.                                                                   *)
(***************************************************************************)
C9_RevokeCarriesLiveRule ==
    \A p \in Procs : \A k \in 1..Len(calls[p]) :
      calls[p][k].api \in RevokeApis =>
        LET c == calls[p][k]
            live == current_rules[p][DirectionOf(c.api)]
        IN  /\ c.GroupId = SECURITY_GROUP_ID
            /\ Len(c.IpPermissions) = 1
            /\ \E n \in 1..Len(live) : live[n] = c.IpPermissions[1]

(* An egress revoke of a rule that carries metadata. *)
C9_Witness ==
    \E p \in Procs : \E k \in 1..Len(RevokeCalls(p)) :
        /\ RevokeCalls(p)[k].api = RevokeApi("egress")
        /\ RevokeCalls(p)[k].IpPermissions = <<RuleSshLive>>

(***************************************************************************)
(* C10: two invocations that both read the live rules, and whose revokes   *)
(* succeeded on every rule still present and were rejected by the API on   *)
(* every rule already removed, both end with the success result, have the  *)
(* rejections in 'failed', and leave no rule in the group that both found  *)
(* unauthorized.                                                           *)
(***************************************************************************)
RevokesAsProvided(p) ==
    /\ \A k \in 1..Len(RevokeCalls(p)) :
          RevokeCalls(p)[k].outcome \in {"ok", "ClientError"}
    /\ \A k \in 1..Len(results[p].failed) :
          results[p].failed[k].error = "InvalidPermission.NotFound"

C10_ConcurrentInvocations ==
    (\A p \in Procs : Finished(p) /\ Compared(p) /\ RevokesAsProvided(p)) =>
        /\ \A p \in Procs :
              /\ response[p].kind = "return"
              /\ response[p].statusCode = 200
              /\ Len(results[p].failed) =
                     Count(RevokeCalls(p), LAMBDA c : c.outcome # "ok")
        /\ \A d \in Directions : \A k \in 1..Len(sg[d]) :
              \E p \in Procs :
                  \A n \in 1..Len(Unauthorized(p, d)) :
                      Unauthorized(p, d)[n] # sg[d][k]

(***************************************************************************)
(* C11: when the secret store returned a webhook URL that contains the     *)
(* placeholder marker, the invocation has made no webhook POST, has caught *)
(* no error and has returned the success result; the topic publish was     *)
(* made before.                                                            *)
(***************************************************************************)
C11_PlaceholderSkipsWebhook ==
    \A p \in Procs :
        (\E k \in 1..Len(webhook_url[p]) : webhook_url[p][k] = PLACEHOLDER) =>
            /\ \A k \in 1..Len(calls[p]) : calls[p][k].api # "http.request"
            /\ Count(calls[p], LAMBDA c : c.api = "sns.publish") = 1
            /\ LastCall(p).api = "ssm.get_parameter"
            /\ error[p] = ""
            /\ pc[p] = "done"
            /\ response[p] = RemediatedResponse(p)

(* The marker is only a part of the stored value. *)
C11_Witness ==
    \E p \in Procs :
        /\ webhook_url[p] = <<"https://hooks.slack.com/", PLACEHOLDER>>
        /\ pc[p] = "done"
        /\ Len(results[p].revoked) > 0

(***************************************************************************)
(* C15: in every drift report has_drift says whether one of the two        *)
(* unauthorized lists is non-empty, and total_unauthorized is the sum of   *)
(* their lengths.                                                          *)
(***************************************************************************)
C15_DriftReportAggregates ==
    \A p \in Procs :
        LET report == drift_detected[p]
            ing == report.unauthorized_rules.ingress
            egr == report.unauthorized_rules.egress
        IN  /\ report.has_drift = (Len(ing) > 0 \/ Len(egr) > 0)
            /\ report.total_unauthorized = Len(ing) + Len(egr)

(* A report with unauthorized rules in the egress direction only. *)
C15_Witness ==
    \E p \in Procs :
        /\ JustCompared(p)
        /\ Len(drift_detected[p].unauthorized_rules.ingress) = 0
        /\ Len(drift_detected[p].unauthorized_rules.egress) = 2
        /\ drift_detected[p].has_drift

(***************************************************************************)
(* C20: a live rule that no baseline rule of its own direction matches is  *)
(* reported as unauthorized, also when a baseline rule of the other        *)
(* direction matches it.                                                   *)
(***************************************************************************)
OtherDirection(d) == IF d = "ingress" THEN "egress" ELSE "ingress"

(* Some rule of the loaded baseline's list for direction d matches. *)
MatchedIn(p, rule, d) ==
    /\ d \in DOMAIN baseline_rules[p]
    /\ \E j \in 1..Len(baseline_rules[p][d]) :
          normalize_rule(rule) = normalize_rule(baseline_rules[p][d][j])

C20_DirectionsIndependent ==
    \A p \in Procs : JustCompared(p) =>
        \A d \in Directions : \A n \in 1..Len(current_rules[p][d]) :
            LET rule == current_rules[p][d][n]
                reported == drift_detected[p].unauthorized_rules[d]
            IN  (~MatchedIn(p, rule, d) /\ MatchedIn(p, rule, OtherDirection(d)))
                    => \E k \in 1..Len(reported) : reported[k] = rule

(* An egress rule that only the ingress baseline holds. *)
C20_Witness ==
    \E p \in Procs :
        /\ JustCompared(p)
        /\ baseline_rules[p] = [ingress |-> <<RuleSsh>>, egress |-> <<>>]
        /\ current_rules[p].egress = <<RuleSshLive>>
        /\ drift_detected[p].unauthorized_rules.egress = <<RuleSshLive>>

(***************************************************************************)
(* C12: normalize_rule applied to a dict normalize_rule returned succeeds  *)
(* and returns that dict again; and the match of normalized forms is       *)
(* reflexive, symmetric and transitive.                                    *)
(***************************************************************************)
NormalizedSamples ==
    {normalize_rule(r) : r \in {RuleSsh, RuleSshLive, RuleOpen, RuleAll}}

C12_NormalizeIdempotent ==
    /\ output.fn = "normalize_rule(normalize_rule)" => output.ret = output.arg
    /\ output.fn = "normalize_rule" =>
          /\ rules_match(output.ret, output.ret)
          /\ \A m \in NormalizedSamples :
                rules_match(output.ret, m) = rules_match(m, output.ret)
          /\ \A m, n \in NormalizedSamples :
                rules_match(output.ret, m) /\ rules_match(m, n)
                    => rules_match(output.ret, n)

(***************************************************************************)
(* C13: whatever the order of the entries inside a source collection of a  *)
(* rule, normalize_rule has the same outcome, and when it returns, the     *)
(* reordered rule is found in a baseline that holds the rule.              *)
(***************************************************************************)
Permuted(rule, k, perm) ==
    [rule EXCEPT ![k] = [n \in 1..Len(rule[k]) |-> rule[k][perm[n]]]]

C13_OrderIndependence ==
    output.fn = "normalize_rule" =>
        \A k \in ListKeys \cap DOMAIN input.rule :
            \A perm \in Permutations(1..Len(input.rule[k])) :
                LET shuffled == Permuted(input.rule, k, perm)
                IN  /\ normalize_rule(shuffled) = output.ret
                    /\ "error" \notin DOMAIN output.ret =>
                          is_rule_in_baseline(shuffled, <<input.rule>>) = "True"

(* A rule whose two IPv4 entries are not in sorted order. *)
C13_Witness ==
    /\ output.fn = "normalize_rule"
    /\ "IpRanges" \in DOMAIN input.rule
    /\ input.rule.IpRanges = <<[CidrIp |-> "10.0.0.0/8"],
                               [CidrIp |-> "0.0.0.0/0", Description |-> "office"]>>
    /\ "IpRanges" \in DOMAIN output.ret
    /\ output.ret.IpRanges = <<"0.0.0.0/0", "10.0.0.0/8">>

(***************************************************************************)
(* C14: a rule that differs from another only in fields outside protocol,  *)
(* ports and source identifiers (descriptions of entries, user ids of peer *)
(* groups, rule ids, tags) has the same normalized form, and is found in a *)
(* baseline that holds the other.                                          *)
(***************************************************************************)
(* The entry with its identifier as it is and any value, or none, of meta. *)
EntryVariants(entry, id, meta, values) ==
    LET base == IF id \in DOMAIN entry THEN id :> entry[id] ELSE <<>>
    IN  {base} \cup {base @@ (meta :> v) : v \in values}

RECURSIVE ListVariants(_, _, _, _)
ListVariants(L, id, meta, values) ==
    IF L = <<>> THEN {<<>>}
    ELSE {<<e>> \o rest :
            e \in EntryVariants(Head(L), id, meta, values),
            rest \in ListVariants(Tail(L), id, meta, values)}

WithList(rule, k, meta, values) ==
    IF k \in DOMAIN rule
    THEN {[rule EXCEPT ![k] = L] :
            L \in ListVariants(rule[k], IdKey(k), meta, values)}
    ELSE {rule}

MetadataVariants(rule) ==
    {v @@ extra :
        v \in UNION {WithList(w, "UserIdGroupPairs", "UserId", {"999988887777"}) :
                        w \in WithList(rule, "IpRanges", "Description", {"vpn"})},
        extra \in {<<>>, "SecurityGroupRuleId" :> "sgr-0a1b2c"}}

C14_MetadataIgnored ==
    output.fn = "normalize_rule" =>
        \A v \in MetadataVariants(input.rule) :
            /\ normalize_rule(v) = output.ret
            /\ "error" \notin DOMAIN output.ret =>
                  is_rule_in_baseline(v, <<input.rule>>) = "True"

(* The rule as exported and, among its variants, the rule as read live. *)
C14_Witness ==
    /\ output.fn = "normalize_rule"
    /\ input.rule = [IpProtocol |-> "tcp", FromPort |-> 22, ToPort |-> 22,
                     IpRanges |-> <<[CidrIp |-> "10.0.0.0/8"]>>]
    /\ [IpProtocol |-> "tcp", FromPort |-> 22, ToPort |-> 22,
        IpRanges |-> <<[CidrIp |-> "10.0.0.0/8", Description |-> "vpn"]>>,
        SecurityGroupRuleId |-> "sgr-0a1b2c"] \in MetadataVariants(input.rule)

(***************************************************************************)
(* C16: the unauthorized list of each direction is the live list of that   *)
(* direction restricted to the reported rules: the records are the live    *)
(* records themselves, in the order of the live list, and a record that    *)
(* occurs several times in the live list occurs as often in the report.    *)
(***************************************************************************)
C16_ReportIsSubsequenceOfLive ==
    (output.fn = "compare_rules" /\ "error" \notin DOMAIN output.ret) =>
        \A d \in Directions :
            LET live == input.current[d]
                reported == output.ret.unauthorized_rules[d]
            IN  reported = SelectSeq(live,
                    LAMBDA r : \E k \in 1..Len(reported) : reported[k] = r)

(* One direction holds a rule twice, the other two rules out of str order. *)
C16_Witness ==
    /\ output.fn = "compare_rules"
    /\ input.baseline.ingress = <<RuleAll>>
    /\ input.current = [ingress |-> <<RuleOpen, RuleOpen>>,
                        egress |-> <<RuleSshLive, RuleOpen>>]
    /\ output.ret.unauthorized_rules = input.current

(***************************************************************************)
(* C17: the summary of a rule is "All traffic from S" for protocol "-1",   *)
(* else "Protocol P, Port F from S" when both ports are equal, else        *)
(* "Protocol P, Ports F-T from S"; S lists the IPv4 CIDRs, then the IPv6   *)
(* CIDRs, then the peer-group ids, separated by commas, without the        *)
(* entries whose identifier is missing or empty, and is "unknown" when     *)
(* none is left.                                                           *)
(***************************************************************************)
(* The identifiers of the entries of rule[k] that have a non-empty one. *)
Identified(rule, k) ==
    LET L == IF k \in DOMAIN rule THEN rule[k] ELSE <<>>
        named == SelectSeq(L, LAMBDA e : IdKey(k) \in DOMAIN e /\ e[IdKey(k)] # "")
    IN  [n \in 1..Len(named) |-> named[n][IdKey(k)]]

SourcesText(rule) ==
    LET ids == Identified(rule, "IpRanges") \o Identified(rule, "Ipv6Ranges")
               \o Identified(rule, "UserIdGroupPairs")
    IN  IF ids = <<>> THEN "unknown" ELSE Join(ids)

Shown(rule, k) == IF k \in DOMAIN rule THEN ToString(rule[k]) ELSE "all"

C17_SummaryPatterns ==
    output.fn = "format_rule_summary" =>
        LET rule == input.rule
            P == IF "IpProtocol" \in DOMAIN rule THEN rule.IpProtocol ELSE "all"
            F == Shown(rule, "FromPort")
            T == Shown(rule, "ToPort")
            S == SourcesText(rule)
        IN  output.ret =
                IF P = "-1" THEN "All traffic from " \o S
                ELSE IF F = T
                     THEN "Protocol " \o P \o ", Port " \o F \o " from " \o S
                ELSE "Protocol " \o P \o ", Ports " \o F \o "-" \o T
                     \o " from " \o S

(* A port range, an entry without identifier between two with one. *)
C17_Witness ==
    /\ output.fn = "format_rule_summary"
    /\ output.ret = "Protocol tcp, Ports 0-22 from 10.0.0.0/8, ::/0, sg-peer"
    /\ "IpRanges" \in DOMAIN input.rule
    /\ input.rule.IpRanges = <<[CidrIp |-> "10.0.0.0/8"],
                               [Description |-> "office"]>>

(***************************************************************************)
(* C18: normalize_rule returns for every rule, and what it returns is what *)
(* it returns for the rule without the source entries whose identifying    *)
(* field is missing or empty; a collection of such entries only is absent  *)
(* from the normalized form.                                               *)
(***************************************************************************)
WithoutUnidentified(rule) ==
    [k \in DOMAIN rule |->
        IF k \in ListKeys
        THEN SelectSeq(rule[k],
                 LAMBDA e : IdKey(k) \in DOMAIN e /\ e[IdKey(k)] # "")
        ELSE rule[k]]

C18_UnidentifiedEntriesDiscarded ==
    output.fn = "normalize_rule" =>
        /\ "error" \notin DOMAIN output.ret
        /\ output.ret = normalize_rule(WithoutUnidentified(input.rule))

(***************************************************************************)
(* C19: two rules that differ only in the protocol, only in FromPort or    *)
(* only in ToPort (a port 0 and a missing port differ) have different      *)
(* normalized forms, and neither is found in a baseline holding the other. *)
(***************************************************************************)
(* The rule with key k absent or holding another of the values. *)
Changed(rule, k, values) ==
    LET rest == [j \in DOMAIN rule \ {k} |-> rule[j]]
    IN  {v \in {rest} \cup {rest @@ (k :> x) : x \in values} : v # rule}

C19_ProtocolAndPortsVerbatim ==
    (output.fn = "normalize_rule" /\ "error" \notin DOMAIN output.ret) =>
        \A v \in Changed(input.rule, "IpProtocol", {"tcp", "-1"})
                 \cup Changed(input.rule, "FromPort", {0, 22})
                 \cup Changed(input.rule, "ToPort", {0, 22}) :
            /\ normalize_rule(v) # output.ret
            /\ is_rule_in_baseline(v, <<input.rule>>) = "False"

(***************************************************************************)
(* C21: the calls of an invocation are made in the order baseline read,    *)
(* live-rule read, revoke calls, topic publish of the drift, secret fetch, *)
(* webhook POST: each kind but the revoke call at most once, a read only   *)
(* after the read before it succeeded, and no revoke call after a          *)
(* notification call.                                                      *)
(***************************************************************************)
Stage(c) ==
    CASE c.api = "s3.get_object" -> 1
      [] c.api = "ec2.describe_security_groups" -> 2
      [] c.api \in RevokeApis -> 3
      [] c.api = "sns.publish" -> IF c.Subject = "drift" THEN 4 ELSE 7
      [] c.api = "ssm.get_parameter" -> 5
      [] c.api = "http.request" -> 6

C21_CallOrder ==
    \A p \in Procs : \A k \in 1..Len(calls[p]) :
        LET c == calls[p][k]
        IN  Stage(c) <= 6 =>
              /\ \A j \in 1..(k - 1) :
                    /\ Stage(calls[p][j]) <= Stage(c)
                    /\ Stage(calls[p][j]) = Stage(c) => Stage(c) = 3
              /\ Stage(c) >= 2 =>
                    \E j \in 1..(k - 1) : /\ calls[p][j].api = "s3.get_object"
                                          /\ calls[p][j].outcome = "ok"
              /\ Stage(c) >= 3 =>
                    \E j \in 1..(k - 1) :
                        /\ calls[p][j].api = "ec2.describe_security_groups"
                        /\ calls[p][j].outcome = "ok"

(* An invocation that made every kind of call, with revokes in both        *)
(* directions.                                                             *)
C21_Witness ==
    \E p \in Procs :
        /\ Len(calls[p]) = 7
        /\ calls[p][3].api = RevokeApi("ingress")
        /\ calls[p][4].api = RevokeApi("egress")
        /\ calls[p][5].api = "sns.publish"
        /\ calls[p][6].api = "ssm.get_parameter"
        /\ calls[p][7].api = "http.request"

(***************************************************************************)
(* C22: an invocation that found drift never makes the drift publish or    *)
(* the secret fetch of the webhook path twice, and ends with each made     *)
(* once, whatever the revoke calls and the publish answered.               *)
(***************************************************************************)
DriftPublishes(p) ==
    Count(calls[p], LAMBDA c : c.api = "sns.publish" /\ c.Subject = "drift")

WebhookAttempts(p) == Count(calls[p], LAMBDA c : c.api = "ssm.get_parameter")

C22_BothChannelsAttempted ==
    \A p \in Procs :
        /\ DriftPublishes(p) <= 1
        /\ WebhookAttempts(p) <= 1
        /\ (Finished(p) /\ drift_detected[p].has_drift) =>
              /\ DriftPublishes(p) = 1
              /\ WebhookAttempts(p) = 1

(***************************************************************************)
(* C23: the rule of every revoke call is a rule of the invocation's live   *)
(* read of the call's direction whose normalized form is the normalized    *)
(* form of no rule the loaded baseline lists for that direction.           *)
(***************************************************************************)
C23_OnlyUnauthorizedRevoked ==
    \A p \in Procs :
        (Len(calls[p]) > 0 /\ LastCall(p).api \in RevokeApis) =>
            \A k \in 1..Len(calls[p]) : calls[p][k].api \in RevokeApis =>
                LET d == DirectionOf(calls[p][k].api)
                    rule == calls[p][k].IpPermissions[1]
                    normalized == normalize_rule(rule)
                    live == current_rules[p][d]
                    listed == IF d \in DOMAIN baseline_rules[p]
                              THEN baseline_rules[p][d] ELSE <<>>
                IN  /\ \E n \in 1..Len(live) : live[n] = rule
                    /\ \A j \in 1..Len(listed) :
                          normalize_rule(listed[j]) # normalized

(* The revoke of the one unauthorized rule is rejected; the authorized     *)
(* rule read before it gets no call.                                       *)
C23_Witness ==
    \E p \in Procs :
        /\ baseline_rules[p] = [ingress |-> <<RuleSsh>>, egress |-> <<>>]
        /\ current_rules[p].ingress = <<RuleSshLive, RuleOpen>>
        /\ Len(RevokeCalls(p)) = 1
        /\ LastCall(p).api = RevokeApi("ingress")
        /\ LastCall(p).IpPermissions = <<RuleOpen>>
        /\ LastCall(p).outcome = "ClientError"
        /\ pc[p] = "publish"

(***************************************************************************)
(* C24: once revoke_unauthorized_rules has returned, the revoke calls made *)
(* are one per unauthorized rule, ingress rules first; 'revoked' holds, in *)
(* call order, an entry for every call that succeeded and 'failed' one for *)
(* every call that did not, each with the direction and the summary of the *)
(* call's rule; so the two lengths add up to total_unauthorized.           *)
(***************************************************************************)
(* send_notifications, which follows the return, has begun or is next. *)
RevokeReturned(p) ==
    /\ drift_detected[p].has_drift
    /\ pc[p] = "publish" \/ DriftPublishes(p) > 0

EntryOf(c) ==
    [type |-> DirectionOf(c.api), rule |-> format_rule_summary(c.IpPermissions[1])]

C24_RemediationAccounting ==
    \A p \in Procs : RevokeReturned(p) =>
        LET made == RevokeCalls(p)
            succeeded == SelectSeq(made, LAMBDA c : c.outcome = "ok")
            rejected == SelectSeq(made, LAMBDA c : c.outcome # "ok")
            found == drift_detected[p].unauthorized_rules
            revoked == results[p].revoked
            failed == results[p].failed
        IN  /\ Len(revoked) + Len(failed) = drift_detected[p].total_unauthorized
            /\ [k \in 1..Len(made) |->
                   [type |-> DirectionOf(made[k].api),
                    rule |-> made[k].IpPermissions[1]]]
               = [k \in 1..Len(found.ingress) |->
                     [type |-> "ingress", rule |-> found.ingress[k]]]
                 \o [k \in 1..Len(found.egress) |->
                        [type |-> "egress", rule |-> found.egress[k]]]
            /\ revoked = [k \in 1..Len(succeeded) |-> EntryOf(succeeded[k])]
            /\ Len(failed) = Len(rejected)
            /\ \A k \in 1..Len(failed) :
                  /\ failed[k].type = EntryOf(rejected[k]).type
                  /\ failed[k].rule = EntryOf(rejected[k]).rule

(* An ingress rule was revoked and the revoke of an egress rule rejected. *)
C24_Witness ==
    \E p \in Procs :
        /\ RevokeReturned(p)
        /\ Len(results[p].revoked) = 1
        /\ results[p].revoked[1].type = "ingress"
        /\ Len(results[p].failed) = 1
        /\ results[p].failed[1].type = "egress"

(***************************************************************************)
(* C25: when the loaded baseline has no list for a direction, the          *)
(* comparison succeeds and reports every live rule of that direction, and  *)
(* the invocation ends with a revoke call made for each of them.           *)
(***************************************************************************)
C25_MissingDirectionIsEmptyBaseline ==
    \A p \in Procs : \A d \in Directions :
        (Compared(p) /\ d \notin DOMAIN baseline_rules[p]) =>
            LET live == current_rules[p][d]
            IN  /\ error[p] # "TypeError"
                /\ drift_detected[p].unauthorized_rules[d] = live
                /\ Finished(p) =>
                      \A n \in 1..Len(live) :
                          \E k \in 1..Len(calls[p]) :
                              /\ calls[p][k].api = RevokeApi(d)
                              /\ calls[p][k].IpPermissions = <<live[n]>>

====
